---- MODULE Spec2Model ----
(***************************************************************************)
(* Model of the two-round thesis defense scheduler                         *)
(* (src/src/scheduler.py, class ThesisScheduler) together with the data    *)
(* frames that src/src/preprocessing.py (class Dataframe) hands to it.     *)
(*                                                                         *)
(* Encoding of the data frames:                                            *)
(*   - lecturer codes are 1..NumJudges, in the row order of the            *)
(*     availability file (the order of lect_pool);                         *)
(*   - the 30-minute slot columns "YYYYMMDD_HHMM" are 1..2*NumHours in     *)
(*     chronological order (one day, consecutive hours), so that           *)
(*     _get_next_timeslot(s) is s + 1;                                     *)
(*   - a request's nim is its row index; NA stands for NaN / NaT / None;   *)
(*   - a board cell holds NoOccupant ('none'), a nim, or a capstone code.  *)
(***************************************************************************)
EXTENDS Integers, Sequences, FiniteSets, TLC

\* ---------------------------------------------------------------- bounds
NumReq == 3
NumJudges == 3
NumHours == 2
MaxParallel == 2

\* ------------------------------------------------------------- encodings
NA == 0
NoOccupant == 0
\* an sk_ cell of four blanks: not NaN, not '', and of the length
\* _verify_availability_format asks for
BlankTag == 3
NoStatus == "NaT"
StatusExpertise == "Time and Expertise Match"
StatusTimeOnly == "Time Match Only"
StatusPreAssigned == "Time Match Only (Examiner Already Assigned)"
Proposal == "Proposal"
SidangAkhir == "Sidang Akhir"

Rows == 1..NumReq
Judges == 1..NumJudges
Hours == 1..NumHours
Slots == 1..(2 * NumHours)
\* the one capstone code used by the inputs; distinct from every nim
GroupCode == NumReq + 1
ExaminerRoles == <<"examiner_1", "examiner_2">>
SupervisorRoles == <<"spv_1", "spv_2">>

\* config.ini [PARAMETERS], as written by the web backend; the *_sidang keys
\* have no default in the sources and are part of the input.
config ==
    [ default_timeslot |-> 2, capstone_duration_2 |-> 3,
      capstone_duration_3 |-> 4, capstone_duration_4 |-> 5,
      default_timeslot_sidang |-> 3, capstone_duration_sidang_2 |-> 4,
      capstone_duration_sidang_3 |-> 5, capstone_duration_sidang_4 |-> 6 ]

VARIABLES
    req,        \* dataframes['request']: row index -> request row
    board,      \* dataframes['timeslots']: slot -> sequence of slot_A, slot_B, ...
    lect,       \* dataframes['lecturers']: judge -> num_assignment, used_timeslot
    avail,      \* dataframes['lecturer_availability']: judge -> slot -> BOOLEAN
    expertise,  \* dataframes['lecturers']['expertise']: judge -> list of tags
    parallel_event, \* config parallel_event, the number of slot_ columns created
    round2,     \* ThesisScheduler.round2
    pc,         \* position of run(): "round1", "round2", "done", "aborted"
    idx,        \* row index the current iterrows() loop is at
    snap,       \* the rows iterrows() yields: the request frame at loop start
    processed,  \* processed_capstone_groups
    stats,      \* unscheduled_before_round_1 / _before_round_2 / _after_round_2
    req0,       \* history: the request frame at the start of run()
    pre,        \* history: request frame, board and lecturers before the last attempt
    last,       \* history: what the last step of run() did
    csv_rows,   \* csv_fixer: the data rows csv.DictReader yields for the request file
    has_timestamp,   \* csv_fixer: 'Timestamp' is a column of the file (new format)
    nim_to_row, \* csv_fixer: the dict nim -> normalized row, in insertion order
    duplicate_count, \* csv_fixer: duplicate_count
    pos,        \* csv_fixer: position of `for row in rows`
    npc,        \* position of normalize_csv_for_scheduler
    normalized_rows, \* csv_fixer: the rows written to *_normalized.csv
    running,    \* app.py: job_status['running']
    handler,    \* app.py: position of each thread that serves POST /run
    threads,    \* app.py: the number of live execute_scheduler threads
    served      \* app.py: the number of POST /run requests received

csvvars == <<csv_rows, has_timestamp, nim_to_row, duplicate_count, pos, npc,
             normalized_rows>>

schedvars == <<req, board, lect, avail, expertise, parallel_event, round2, pc, idx, snap,
               processed, stats, req0, pre, last>>

webvars == <<running, handler, threads, served>>

vars == <<schedvars, csvvars, webvars>>

\* ----------------------------------------------------------------- helpers
Min(S) == CHOOSE x \in S : \A y \in S : x <= y

RECURSIVE SortedSeq(_)
SortedSeq(S) == IF S = {} THEN <<>> ELSE <<Min(S)>> \o SortedSeq(S \ {Min(S)})

SeqToSet(q) == {q[k] : k \in 1..Len(q)}

\* ------------------------------------------------------------------ inputs
\* lecture_field: the expertise list (sk_1..sk_4) of each lecturer, NaN and ''
\* cells left out; a lecturer may carry a cell of blanks
ExpertiseChoices ==
    { [j \in Judges |-> IF j = 1 THEN <<1>> ELSE <<2>>],
      [j \in Judges |-> IF j = 1 THEN <<1, BlankTag>> ELSE <<2>>],
      [j \in Judges |-> IF j = 1 THEN <<1>> ELSE <<2, BlankTag>>] }

\* the hourly availability columns of a lecturer: every hour, or all but one
AvailChoices == {Hours} \cup {Hours \ {h} : h \in Hours}

\* get_lecture_availability: each hourly column becomes two 30-minute columns
\* carrying the hour's value
ExpandAvailability(hs) == [s \in Slots |-> ((s + 1) \div 2) \in hs]

\* get_lecture_availability, 'availability_count': the TRUE cells of
\* expanded_df.iloc[:, 2:], taken before the count column is inserted, i.e.
\* of every slot column but the first
AvailabilityCount(av, j) == Cardinality({s \in Slots \ {1} : av[j][s]})

\* create_timeslot_dataframe: one row per slot, parallel_event columns of 'none'
EmptyBoardExtraColumn(cap) == [s \in Slots |-> [c \in 1..(cap + 1) |-> NoOccupant]]

EmptyBoard(cap) == [s \in Slots |-> [c \in 1..cap |-> NoOccupant]]

\* ThesisScheduler.__init__: num_assignment = 0, used_timeslot = NaT
InitLecturers == [j \in Judges |-> [num_assignment |-> 0, used_timeslot |-> <<>>]]

\* read_and_clean_request: a request row; date_time is blank on input
\* (_verify_request_format), and so is status, the way
\* csv_fixer.normalize_csv_for_scheduler writes the request file
RequestRow(r, e1, e2) ==
    [ nim |-> r, capstone_code |-> NA, type |-> Proposal,
      field_1 |-> 2, field_2 |-> NA, spv_1 |-> 1, spv_2 |-> NA,
      examiner_1 |-> e1, examiner_2 |-> e2, date_time |-> NA, status |-> NoStatus ]

ExaminerChoices == {<<NA, NA>>, <<2, NA>>, <<2, 3>>}

DevAttrs == {"type", "field_1", "field_2", "spv_1", "spv_2", "examiner_1", "examiner_2"}

\* one input row that departs from the others in one column
Deviate(row, attr) ==
    CASE attr = "type" -> [row EXCEPT !.type = SidangAkhir]
      [] attr = "field_1" -> [row EXCEPT !.field_1 = 1]
      [] attr = "field_2" -> [row EXCEPT !.field_2 = 1]
      [] attr = "spv_1" -> [row EXCEPT !.spv_1 = 2]
      [] attr = "spv_2" -> [row EXCEPT !.spv_2 = 3]
      [] attr = "examiner_1" -> [row EXCEPT !.examiner_1 = IF @ = NA THEN 2 ELSE NA]
      [] attr = "examiner_2" -> [row EXCEPT !.examiner_2 = IF @ = NA THEN 3 ELSE NA]
      [] OTHER -> row

\* the rows that carry the capstone code: none, one row alone, or several
GroupChoices == SUBSET Rows

NoStep ==
    [ kind |-> "init", round |-> 0, row |-> 0, label |-> NoOccupant, start |-> NA,
      dur |-> 0, examiners |-> <<>>, needed |-> 0 ]

\* the deviations an input takes: none, or one column of one row
DevChoices == {<<0, "none">>} \cup (Rows \X DevAttrs)

\* the number of threads of the web server that serve POST /run at a time,
\* and the number of POST /run requests of a session
NumHandlers == 2
MaxRequests == 4

Handlers == 1..NumHandlers

\* app.py at import: no job, no request
WebIdle ==
    /\ running = FALSE
    /\ handler = [h \in Handlers |-> "idle"]
    /\ threads = 0
    /\ served = 0

\* run() is started on files that are already normalized: csv_fixer is at rest
CsvIdle ==
    /\ csv_rows = <<>>
    /\ has_timestamp = FALSE
    /\ nim_to_row = <<>>
    /\ duplicate_count = 0
    /\ pos = 0
    /\ npc = "idle"
    /\ normalized_rows = <<>>

Init ==
    /\ \E ex \in ExaminerChoices, G \in GroupChoices, dev \in DevChoices :
          /\ req = [r \in Rows |->
                      LET row0 == RequestRow(r, ex[1], ex[2])
                          row1 == IF r \in G
                                  THEN [row0 EXCEPT !.capstone_code = GroupCode]
                                  ELSE row0
                      IN IF r = dev[1] THEN Deviate(row1, dev[2]) ELSE row1]
          /\ Cardinality(G) = 1 => dev[2] \in {"none", "type"}
          /\ round2 \in IF dev[1] = 0 THEN BOOLEAN ELSE {TRUE}
          /\ expertise \in IF dev[2] \in {"spv_1", "field_1"}
                           THEN ExpertiseChoices
                           ELSE {[j \in Judges |-> IF j = 1 THEN <<1>> ELSE <<2>>]}
    /\ parallel_event \in 1..MaxParallel
    /\ board = EmptyBoard(parallel_event)
    /\ \E hs \in [Judges -> AvailChoices] :
          avail = [j \in Judges |-> ExpandAvailability(hs[j])]
    /\ lect = InitLecturers
    /\ pc = "start"
    /\ idx = 0
    /\ snap = req
    /\ processed = {}
    /\ stats = [before_round_1 |-> 0, before_round_2 |-> 0, after_round_2 |-> 0]
    /\ req0 = req
    /\ pre = [req |-> req, board |-> board, lect |-> lect]
    /\ last = NoStep
    /\ CsvIdle
    /\ WebIdle

\* ------------------------------------------------- capstone groups, duration
GroupRows(rq, code) == {r \in Rows : rq[r].capstone_code = code}

\* pd.notna(request.get('capstone_code'))
IsCapstone(request) == request.capstone_code # NA

FieldsToCheckNoExaminer2 == {"spv_1", "spv_2", "examiner_1", "field_1", "field_2"}

FieldsToCheck == {"spv_1", "spv_2", "examiner_1", "examiner_2", "field_1", "field_2"}

\* third disjunct of the consistency test: field_values.isna().equals(other).
\* With a NaN reference `other` is the scalar NaN and equals() is False; else
\* `other` is pd.Series([False] * n), whose index is 0..n-1, and equals() also
\* compares the index with the group's row labels.
IsnaEqualsOther(rq, G, f) ==
    /\ rq[Min(G)][f] # NA
    /\ \A r \in G : rq[r][f] # NA
    /\ G = 0..(Cardinality(G) - 1)

\* _verify_capstone_integrity: TRUE when no ValueError is raised
VerifyCapstoneIntegrity(rq, code) ==
    LET G == GroupRows(rq, code)
        ref(f) == rq[Min(G)][f]
    IN \A f \in FieldsToCheck :
          \/ \A r \in G : rq[r][f] = NA
          \/ \A r \in G : rq[r][f] # NA /\ rq[r][f] = ref(f)
          \/ IsnaEqualsOther(rq, G, f)

\* _check_capstone: whether it raises
CheckCapstoneRaises(rq, request) ==
    IsCapstone(request) /\ ~VerifyCapstoneIntegrity(rq, request.capstone_code)

\* _check_capstone: request_id, the nim list of the group or the single nim
CheckCapstone(rq, request) ==
    IF IsCapstone(request)
    THEN [list |-> TRUE, nims |-> SortedSeq(GroupRows(rq, request.capstone_code))]
    ELSE [list |-> FALSE, nims |-> <<request.nim>>]

\* a duration that looks at the group size alone
CheckTimeslotNeededAnyType(rq, request_id) ==
    LET num_students == Len(request_id.nims)
    IN IF ~request_id.list THEN config.default_timeslot
       ELSE CASE num_students = 2 -> config.capstone_duration_2
              [] num_students = 3 -> config.capstone_duration_3
              [] num_students = 4 -> config.capstone_duration_4
              [] OTHER -> config.default_timeslot

\* _check_timeslot_needed
CheckTimeslotNeeded(rq, request_id) ==
    LET first == request_id.nims[1]
        found == first \in Rows
        request_type == rq[first].type
        num_students == Len(request_id.nims)
    IN IF ~found THEN config.default_timeslot
       ELSE IF ~request_id.list
            THEN IF request_type = SidangAkhir THEN config.default_timeslot_sidang
                                               ELSE config.default_timeslot
            ELSE IF request_type = SidangAkhir
                 THEN CASE num_students = 2 -> config.capstone_duration_sidang_2
                        [] num_students = 3 -> config.capstone_duration_sidang_3
                        [] num_students = 4 -> config.capstone_duration_sidang_4
                        [] OTHER -> config.default_timeslot_sidang
                 ELSE CASE num_students = 2 -> config.capstone_duration_2
                        [] num_students = 3 -> config.capstone_duration_3
                        [] num_students = 4 -> config.capstone_duration_4
                        [] OTHER -> config.default_timeslot

\* the duration run(), _rank_lecturer and _assign_actor all compute for a request
RequiredTimeslot(rq, request) == CheckTimeslotNeeded(rq, CheckCapstone(rq, request))

\* the label written to the board: capstone_code for a group, else nim
AssignmentName(request) ==
    IF IsCapstone(request) THEN request.capstone_code ELSE request.nim

\* the rows a write to the request frame reaches: group_mask / request_mask
TargetRowsOnlyOwn(rq, request) == {r \in Rows : rq[r].nim = request.nim}

\* a mask that selects every row of the frame
TargetRowsWholeFrame(rq, request) == Rows

TargetRows(rq, request) ==
    IF IsCapstone(request) THEN GroupRows(rq, request.capstone_code)
                           ELSE {r \in Rows : rq[r].nim = request.nim}

\* ------------------------------------------------------------- actor lists
\* _check_list_actor: assigned_actor (supervisor roles that are filled)
AssignedActor(request) ==
    SelectSeq(SupervisorRoles, LAMBDA role : request[role] # NA)

\* _check_list_actor: to_be_assigned_actor (examiner roles that are empty)
ToBeAssignedActor(request) ==
    SelectSeq(ExaminerRoles, LAMBDA role : request[role] = NA)

\* run, round 1: lect_pool without the lecturers named in the assigned roles
\* of the row at `index` (the pool keeps the order of the lecturers frame)
RemoveAssigned(rq, index, request) ==
    Judges \ {rq[index][AssignedActor(request)[k]] : k \in 1..Len(AssignedActor(request))}

\* str(x).strip(), and the "" a NaN field is replaced by; NA is the code of ""
StripStr(x) == IF x = BlankTag THEN NA ELSE x

\* _check_lecturer_expertise_match, and the test inside _check_same_field
ExpertiseMatch(j, field_1, field_2) ==
    \E k \in 1..Len(expertise[j]) :
        /\ expertise[j][k] # NA
        /\ \/ StripStr(expertise[j][k]) = StripStr(field_1)
           \/ StripStr(expertise[j][k]) = StripStr(field_2)

\* _check_same_field
CheckSameField(pool, field_1, field_2) ==
    {j \in pool : ExpertiseMatch(j, field_1, field_2)}

\* ------------------------------------------------------------ availability
\* _get_next_timeslot
NextTimeslot(s) == s + 1

\* _get_consecutive_timeslots: the start slots of a run of `dur` consecutive
\* members of `timeslots`
ConsecutiveTimeslots(timeslots, dur) ==
    IF timeslots = {} \/ dur <= 0 THEN {}
    ELSE {s \in timeslots : \A k \in 1..(dur - 1) : s + k \in timeslots}

\* the lecturer codes _get_assigned_actor_availability collects
AssignedLecturerCodes(request) ==
    {request[AssignedActor(request)[k]] : k \in 1..Len(AssignedActor(request))}

\* _get_assigned_actor_availability: the common start slots
AssignedActorAvailability(av, request, dur) ==
    IF AssignedLecturerCodes(request) = {}
    THEN ConsecutiveTimeslots(Slots, dur)
    ELSE {s \in Slots : \A j \in AssignedLecturerCodes(request) :
              s \in ConsecutiveTimeslots({t \in Slots : av[j][t]}, dur)}

\* _get_assigned_actor_availability returns list(set) unless no supervisor is
\* set: only then is the returned list in chronological order
AvailabilityIsOrdered(request) == AssignedLecturerCodes(request) = {}

\* _is_timeslot_free
IsTimeslotFree(b, s) ==
    s \in Slots /\ \E c \in 1..Len(b[s]) : b[s][c] = NoOccupant

\* _get_free_timeslots
FreeTimeslots(b, starts, dur) ==
    {s \in starts : \A k \in 0..(dur - 1) : IsTimeslotFree(b, s + k)}

\* _calculate_criteria_scores, criteria A: matched_timeslots of a lecturer
MatchedTimeslots(av, j, available, dur) ==
    {s \in available : \A k \in 0..(dur - 1) : s + k \in Slots /\ av[j][s + k]}

\* ------------------------------------------------------------------ ranking
\* _rank_lecturer, steps 1 and 2: the free start slots common to the
\* supervisors of `request`, evaluated in the current state
AvailableTimeslots(request) ==
    LET dur == RequiredTimeslot(req, request)
    IN FreeTimeslots(board, AssignedActorAvailability(avail, request, dur), dur)

\* _calculate_criteria_scores, first loop: the raw values of one lecturer
CriteriaRow(j, request, available, dur, round_num) ==
    [ kode_dosen |-> j,
      matched_timeslots |-> MatchedTimeslots(avail, j, available, dur),
      criteria_b_assignments |-> lect[j].num_assignment,
      criteria_c_availability |-> AvailabilityCount(avail, j),
      expertise_match |-> round_num = 2
                          /\ ExpertiseMatch(j, request.field_1, request.field_2) ]

\* criteria_a_matches of a row
CriteriaAMatches(row) == Cardinality(row.matched_timeslots)

\* _calculate_criteria_scores: the rows kept by criteria_a_matches > 0
CriteriaRows(pool, request, round_num) ==
    LET dur == RequiredTimeslot(req, request)
        available == AvailableTimeslots(request)
        rows == {CriteriaRow(j, request, available, dur, round_num) : j \in pool}
    IN {row \in rows : CriteriaAMatches(row) > 0}

\* criteria_a_matches.rank(method='max', ascending=False)
CriteriaAScore(row, rows) ==
    Cardinality({c \in rows : CriteriaAMatches(c) >= CriteriaAMatches(row)})

\* criteria_b_assignments ranked the other way round
CriteriaBScoreAscending(row, rows) ==
    1 + Cardinality({c \in rows : c.criteria_b_assignments < row.criteria_b_assignments})

\* criteria_b_assignments.rank(method='min', ascending=False)
CriteriaBScore(row, rows) ==
    1 + Cardinality({c \in rows : c.criteria_b_assignments > row.criteria_b_assignments})

\* criteria_c_availability.rank(method='min', ascending=False)
CriteriaCScore(row, rows) ==
    1 + Cardinality({c \in rows : c.criteria_c_availability > row.criteria_c_availability})

\* total_score, with the round 2 expertise bonus
TotalScore(row, rows, round_num) ==
    LET total == CriteriaAScore(row, rows) + 4 * CriteriaBScore(row, rows)
                 + CriteriaCScore(row, rows)
    IN IF round_num = 2 /\ row.expertise_match THEN 2 * total ELSE total

\* the ranked frame: kode_dosen, matched_timeslots and total_score of each row
ScoredRows(pool, request, round_num) ==
    LET rows == CriteriaRows(pool, request, round_num)
    IN {[ kode_dosen |-> row.kode_dosen, matched_timeslots |-> row.matched_timeslots,
          total_score |-> TotalScore(row, rows, round_num) ] : row \in rows}

\* sort_values('total_score', ascending=False), in _rank_lecturer and again in
\* _assign_actor: the orders it can return. The default kind is quicksort,
\* which is not a stable sort, so rows of equal score come out in any order.
SortByScore(rows) ==
    {q \in [1..Cardinality(rows) -> rows] :
        /\ \A i, k \in DOMAIN q : i # k => q[i] # q[k]
        /\ \A i, k \in DOMAIN q : i < k => q[i].total_score >= q[k].total_score}

\* _rank_lecturer: the values ranked_pool_df can take
RankLecturer(pool, request, round_num) == SortByScore(ScoredRows(pool, request, round_num))

\* ------------------------------------------------------------ _assign_actor
\* num_examiners_needed
NumExaminersNeeded(request) == Len(ToBeAssignedActor(request))

\* the early returns of _assign_actor: TRUE when it goes on to write
AssignProceedsAnyCount(round_num, needed, nranked) == nranked > 0

AssignProceedsBothOrNone(round_num, needed, nranked) ==
    /\ nranked > 0
    /\ needed > 0 => (needed >= 2 /\ nranked >= 2)

\* one missing examiner is enough in either round
AssignProceedsOneSuffices(round_num, needed, nranked) ==
    /\ nranked > 0
    /\ (needed >= 2 /\ round_num = 1) => nranked >= 2

AssignProceeds(round_num, needed, nranked) ==
    /\ nranked > 0
    /\ (needed > 0 /\ round_num = 1) => (needed >= 2 /\ nranked >= 2)

\* the best candidate alone
ExaminerCodesBestOnly(ranked, needed) ==
    [k \in 1..(IF needed < 1 THEN needed ELSE 1) |-> ranked[k].kode_dosen]

\* examiner_codes: sorted_candidates.head(num_examiners_needed)['kode_dosen']
ExaminerCodes(ranked, needed) ==
    [k \in 1..(IF needed < Len(ranked) THEN needed ELSE Len(ranked)) |->
        ranked[k].kode_dosen]

\* assigned_datetime: element 0 of the matched_timeslots of the best candidate.
\* The list keeps the order of list(set) unless AvailabilityIsOrdered.
StartChoices(ranked, request) ==
    IF AvailabilityIsOrdered(request) THEN {Min(ranked[1].matched_timeslots)}
    ELSE ranked[1].matched_timeslots

\* status written by _assign_actor
AssignStatusUnset(round_num, needed) == NoStatus

AssignStatusByRound(round_num, needed) ==
    IF round_num = 1 THEN StatusExpertise ELSE StatusTimeOnly

AssignStatus(round_num, needed) ==
    IF needed = 0 THEN StatusPreAssigned
    ELSE IF round_num = 1 THEN StatusExpertise ELSE StatusTimeOnly

\* the writes of _assign_actor to the request frame
WriteRequest(rq, request, codes, dt, status) ==
    LET e1 == IF codes # <<>> /\ request.examiner_1 = NA THEN codes[1] ELSE NA
        i2 == IF e1 = NA THEN 1 ELSE 2
        e2 == IF codes # <<>> /\ request.examiner_2 = NA /\ i2 <= Len(codes)
              THEN codes[i2] ELSE NA
    IN [r \in Rows |->
          IF r \in TargetRows(rq, request)
          THEN [rq[r] EXCEPT !.examiner_1 = IF e1 # NA THEN e1 ELSE @,
                             !.examiner_2 = IF e2 # NA THEN e2 ELSE @,
                             !.date_time = dt,
                             !.status = status]
          ELSE rq[r]]

\* _assign_consecutive_timeslots, one slot: the first 'none' column takes the name
WriteEveryFree(row, name) == [c \in 1..Len(row) |-> IF row[c] = NoOccupant THEN name ELSE row[c]]

WriteFirstFree(row, name) ==
    [row EXCEPT ![Min({c \in 1..Len(row) : row[c] = NoOccupant})] = name]

\* _assign_consecutive_timeslots: stops at a missing or a full slot
RECURSIVE AssignConsecutiveTimeslots(_, _, _, _)
AssignConsecutiveTimeslots(b, start, dur, name) ==
    IF dur <= 0 \/ start \notin Slots THEN b
    ELSE IF ~IsTimeslotFree(b, start) THEN b
    ELSE AssignConsecutiveTimeslots([b EXCEPT ![start] = WriteFirstFree(@, name)],
                                    start + 1, dur - 1, name)

\* _assign_actor, lecturers frame: one newly assigned examiner
UpdateLecturer(l, dt) ==
    LET used == IF dt # NA /\ dt \notin SeqToSet(l.used_timeslot)
                THEN Append(l.used_timeslot, dt) ELSE l.used_timeslot
    IN [num_assignment |-> Len(used), used_timeslot |-> used]

\* a commit that takes the event's slots out of the availability of the
\* examiners it assigns
UpdateAvailabilityMarksBusy(av, codes, dt, dur) ==
    [j \in Judges |-> [s \in Slots |->
        IF j \in SeqToSet(codes) /\ dt # NA /\ s >= dt /\ s < dt + dur
        THEN FALSE ELSE av[j][s]]]

\* _assign_actor, "Update lecturer_availability dataframe": the statements
\* under this comment write the lecturers frame; the availability frame is
\* read by the scheduler and never written
UpdateAvailability(av, codes, dt, dur) == av

\* _assign_actor, lecturers frame: every code of examiner_codes
UpdateLecturers(lt, codes, dt) ==
    [j \in Judges |-> IF j \in SeqToSet(codes) THEN UpdateLecturer(lt[j], dt) ELSE lt[j]]

\* -------------------------------------------------- _reset_partial_assignment
\* the request frame after the reset
ResetRequestMarksStatus(rq, current) ==
    [r \in Rows |->
        IF r \in TargetRows(rq, current)
        THEN [rq[r] EXCEPT !.examiner_1 = NA, !.examiner_2 = NA,
                           !.date_time = NA, !.status = StatusTimeOnly]
        ELSE rq[r]]

ResetRequest(rq, current) ==
    [r \in Rows |->
        IF r \in TargetRows(rq, current)
        THEN [rq[r] EXCEPT !.examiner_1 = NA, !.examiner_2 = NA,
                           !.date_time = NA, !.status = NoStatus]
        ELSE rq[r]]

\* _revert_consecutive_timeslots, one slot: the first column holding the name
ClearFirstNamed(row, name) ==
    IF \E c \in 1..Len(row) : row[c] = name
    THEN [row EXCEPT ![Min({c \in 1..Len(row) : row[c] = name})] = NoOccupant]
    ELSE row

\* _revert_consecutive_timeslots
RevertConsecutiveTimeslots(b, start, dur, name) ==
    [s \in Slots |-> IF s >= start /\ s < start + dur THEN ClearFirstNamed(b[s], name)
                                                      ELSE b[s]]

\* the board after the reset: a NaN date_time fails in split('_') and the
\* exception is swallowed, so only a real slot key is reverted
ResetBoard(rq, b, current) ==
    IF current.date_time = NA \/ CheckCapstoneRaises(ResetRequest(rq, current), current)
    THEN b
    ELSE RevertConsecutiveTimeslots(b, current.date_time,
             RequiredTimeslot(ResetRequest(rq, current), current),
             AssignmentName(current))

\* the lecturers frame after the reset
ResetLecturers(lt, current) ==
    LET assigned_examiners == {current.examiner_1, current.examiner_2} \ {NA}
        dt == current.date_time
        without(used) == SelectSeq(used, LAMBDA x : x # dt)
    IN [j \in Judges |->
          IF j \in assigned_examiners /\ dt \in SeqToSet(lt[j].used_timeslot)
          THEN [num_assignment |-> Len(without(lt[j].used_timeslot)),
                used_timeslot |-> without(lt[j].used_timeslot)]
          ELSE lt[j]]

\* _count_unscheduled_requests
CountUnscheduled(rq) == Cardinality({r \in Rows : rq[r].date_time = NA})

\* ---------------------------------------------------------------- run()
\* the row the current iterrows() loop yields
Current == snap[idx]

InLoop(p) == pc = p /\ idx \in Rows

\* run, round 1: the two `continue`s ahead of the processing of a row
RoundOneSkips(request) ==
    \/ request.date_time # NA
    \/ IsCapstone(request) /\ request.capstone_code \in processed

\* run, round 2: the `continue` ahead of the processing of a row
RoundTwoSkipsNothing(request) == FALSE

RoundTwoSkips(request) == request.date_time # NA

\* the candidate pool handed to _rank_lecturer
CandidatePool(round_num, index, request) ==
    IF round_num = 1
    THEN CheckSameField(RemoveAssigned(req, index, request),
                        request.field_1, request.field_2)
    ELSE Judges

\* the values assigned_datetime can take in one call of _assign_actor
DatetimeChoices(ranked, round_num, request) ==
    IF AssignProceeds(round_num, NumExaminersNeeded(request), Len(ranked))
    THEN StartChoices(ranked, request) ELSE {NA}

\* _assign_actor on the ranking `ranked`: the frames it leaves and its result
Attempt(ranked, round_num, request, dt) ==
    LET needed == NumExaminersNeeded(request)
        codes == IF needed = 0 THEN <<>> ELSE ExaminerCodes(ranked, needed)
        dur == RequiredTimeslot(req, request)
    IN IF AssignProceeds(round_num, needed, Len(ranked))
       THEN [ success |-> TRUE,
              req |-> WriteRequest(req, request, codes, dt, AssignStatus(round_num, needed)),
              board |-> AssignConsecutiveTimeslots(board, dt, dur, AssignmentName(request)),
              lect |-> UpdateLecturers(lect, codes, dt),
              avail |-> UpdateAvailability(avail, codes, dt, dur),
              codes |-> codes, dur |-> dur ]
       ELSE [ success |-> FALSE, req |-> req, board |-> board, lect |-> lect,
              avail |-> avail, codes |-> <<>>, dur |-> dur ]

\* run, round 1: the test that decides between ===COMPLETED=== and the reset
RoundOneComplete(updated_request, assignment_success) ==
    /\ updated_request.examiner_1 # NA
    /\ updated_request.examiner_2 # NA
    /\ assignment_success

Step(kind, round_num, request, start, dur, codes) ==
    [ kind |-> kind, round |-> round_num, row |-> idx, label |-> AssignmentName(request),
      start |-> start, dur |-> dur, examiners |-> codes,
      needed |-> NumExaminersNeeded(request) ]

Snapshot == [req |-> req, board |-> board, lect |-> lect]

\* run(): the count before round 1 and the start of the first loop
StartRun ==
    /\ pc = "start"
    /\ stats' = [stats EXCEPT !.before_round_1 = CountUnscheduled(req)]
    /\ processed' = {}
    /\ snap' = req
    /\ idx' = 1
    /\ pc' = "round1"
    /\ last' = [NoStep EXCEPT !.kind = "start"]
    /\ UNCHANGED <<req, board, lect, avail, expertise, parallel_event, round2, csvvars, webvars, req0, pre>>

\* round 1: an already scheduled row, or a later member of a processed group
R1Skip ==
    /\ InLoop("round1")
    /\ RoundOneSkips(Current)
    /\ idx' = idx + 1
    /\ last' = Step("skip", 1, Current, NA, 0, <<>>)
    /\ UNCHANGED <<req, board, lect, avail, expertise, parallel_event, round2, csvvars, webvars, pc, snap, processed, stats, req0, pre>>

\* either round: _check_capstone raises ValueError and run() ends there
IntegrityAbort ==
    /\ \/ InLoop("round1") /\ ~RoundOneSkips(Current)
       \/ InLoop("round2") /\ ~RoundTwoSkips(Current)
    /\ CheckCapstoneRaises(req, Current)
    /\ pc' = "aborted"
    /\ processed' = IF pc = "round1" THEN processed \cup {Current.capstone_code}
                                      ELSE processed
    /\ last' = Step("abort", IF pc = "round1" THEN 1 ELSE 2, Current, NA, 0, <<>>)
    /\ UNCHANGED <<req, board, lect, avail, expertise, parallel_event, round2, csvvars, webvars, idx, snap, stats, req0, pre>>

R1Reached ==
    /\ InLoop("round1")
    /\ ~RoundOneSkips(Current)
    /\ ~CheckCapstoneRaises(req, Current)
    /\ processed' = IF IsCapstone(Current) THEN processed \cup {Current.capstone_code}
                                           ELSE processed
    /\ idx' = idx + 1
    /\ pre' = Snapshot
    /\ UNCHANGED <<expertise, parallel_event, round2, csvvars, webvars, pc, snap, stats, req0>>

\* round 1: no lecturer is left after the field filter (`continue`, no reset)
R1NoPool ==
    /\ R1Reached
    /\ CandidatePool(1, idx, Current) = {}
    /\ last' = Step("nopool", 1, Current, NA, RequiredTimeslot(req, Current), <<>>)
    /\ UNCHANGED <<req, board, lect, avail>>

\* round 1: _assign_actor succeeded and both examiner columns are filled
R1Commit ==
    /\ R1Reached
    /\ CandidatePool(1, idx, Current) # {}
    /\ \E ranked \in RankLecturer(CandidatePool(1, idx, Current), Current, 1) :
       \E dt \in DatetimeChoices(ranked, 1, Current) :
          LET a == Attempt(ranked, 1, Current, dt)
          IN /\ RoundOneComplete(a.req[idx], a.success)
             /\ req' = a.req
             /\ board' = a.board
             /\ lect' = a.lect
             /\ avail' = a.avail
             /\ last' = Step("commit", 1, Current, dt, a.dur, a.codes)

\* round 1: anything else ends in _reset_partial_assignment
R1Rollback ==
    /\ R1Reached
    /\ CandidatePool(1, idx, Current) # {}
    /\ \E ranked \in RankLecturer(CandidatePool(1, idx, Current), Current, 1) :
       \E dt \in DatetimeChoices(ranked, 1, Current) :
          LET a == Attempt(ranked, 1, Current, dt)
              updated_request == a.req[idx]
          IN /\ ~RoundOneComplete(updated_request, a.success)
             /\ req' = ResetRequest(a.req, updated_request)
             /\ board' = ResetBoard(a.req, a.board, updated_request)
             /\ lect' = ResetLecturers(a.lect, updated_request)
             /\ avail' = a.avail
             /\ last' = Step("rollback", 1, Current, dt, a.dur, a.codes)

\* the end of the round 1 loop with round2 set: the count and the second loop
StartRound2 ==
    /\ pc = "round1" /\ idx > NumReq /\ round2
    /\ stats' = [stats EXCEPT !.before_round_2 = CountUnscheduled(req)]
    /\ snap' = req
    /\ idx' = 1
    /\ pc' = "round2"
    /\ last' = [NoStep EXCEPT !.kind = "start2"]
    /\ UNCHANGED <<req, board, lect, avail, expertise, parallel_event, round2, csvvars, webvars, processed, req0, pre>>

\* round 2: the yielded row already has a date_time
R2Skip ==
    /\ InLoop("round2")
    /\ RoundTwoSkips(Current)
    /\ idx' = idx + 1
    /\ last' = Step("skip", 2, Current, NA, 0, <<>>)
    /\ UNCHANGED <<req, board, lect, avail, expertise, parallel_event, round2, csvvars, webvars, pc, snap, processed, stats, req0, pre>>

R2Reached ==
    /\ InLoop("round2")
    /\ ~RoundTwoSkips(Current)
    /\ ~CheckCapstoneRaises(req, Current)
    /\ idx' = idx + 1
    /\ pre' = Snapshot
    /\ UNCHANGED <<expertise, parallel_event, round2, csvvars, webvars, pc, snap, processed, stats, req0>>

\* round 2: _assign_actor writes whatever it found
R2Commit ==
    /\ R2Reached
    /\ \E ranked \in RankLecturer(CandidatePool(2, idx, Current), Current, 2) :
       \E dt \in DatetimeChoices(ranked, 2, Current) :
          LET a == Attempt(ranked, 2, Current, dt)
          IN /\ a.success
             /\ req' = a.req
             /\ board' = a.board
             /\ lect' = a.lect
             /\ avail' = a.avail
             /\ last' = Step("commit", 2, Current, dt, a.dur, a.codes)

\* round 2: the ranking is empty and nothing is written
R2Fail ==
    /\ R2Reached
    /\ \E ranked \in RankLecturer(CandidatePool(2, idx, Current), Current, 2) :
          ~Attempt(ranked, 2, Current, NA).success
    /\ last' = Step("fail", 2, Current, NA, RequiredTimeslot(req, Current), <<>>)
    /\ UNCHANGED <<req, board, lect, avail>>

\* the count after round 2 and the return of run()
Finish ==
    /\ pc \in {"round1", "round2"} /\ idx > NumReq
    /\ pc = "round1" => ~round2
    /\ stats' = [stats EXCEPT !.after_round_2 = CountUnscheduled(req)]
    /\ pc' = "done"
    /\ last' = [NoStep EXCEPT !.kind = "finish"]
    /\ UNCHANGED <<req, board, lect, avail, expertise, parallel_event, round2, csvvars, webvars, idx, snap, processed, req0, pre>>

Next ==
    \/ StartRun
    \/ R1Skip
    \/ IntegrityAbort
    \/ R1NoPool
    \/ R1Commit
    \/ R1Rollback
    \/ StartRound2
    \/ R2Skip
    \/ R2Commit
    \/ R2Fail
    \/ Finish

Spec == Init /\ [][Next]_vars

\* ---------------------------------------------------------------- typing
TypeOK ==
    /\ pc \in {"start", "round1", "round2", "done", "aborted"}
    /\ idx \in 0..(NumReq + 1)
    /\ \A r \in Rows : req[r].nim = r /\ snap[r].nim = r
    /\ \A s \in Slots : Len(board[s]) \in 1..MaxParallel

\* ------------------------------------------------------- reading the frames
\* the occupant labels other than 'none' in one TimeSlotBoard row
OccupiedCount(b, s) == Cardinality({c \in 1..Len(b[s]) : b[s][c] # NoOccupant})

\* the number of board cells that carry a label
LabelCells(b, name) ==
    Cardinality({sc \in Slots \X (1..MaxParallel) :
                    sc[2] <= Len(b[sc[1]]) /\ b[sc[1]][sc[2]] = name})

\* the judges on the panel of a request row
Supervisors(row) == {row.spv_1, row.spv_2} \ {NA}
Examiners(row) == {row.examiner_1, row.examiner_2} \ {NA}
Panel(row) == Supervisors(row) \cup Examiners(row)

Scheduled(r) == req[r].date_time # NA

\* the slots a scheduled row occupies
EventSlots(r) ==
    {s \in Slots : /\ s >= req[r].date_time
                   /\ s < req[r].date_time + RequiredTimeslot(req, req[r])}

\* the columns a processing attempt may write
Outcome(row) == <<row.examiner_1, row.examiner_2, row.date_time, row.status>>

\* the columns whose disagreement within a group is a data-integrity error
\* (the spec's list), and a group whose members disagree in one of them
CriticalFields == {"field_1", "field_2", "spv_1", "spv_2", "examiner_1", "examiner_2"}

Inconsistent(rq) ==
    \E r1, r2 \in GroupRows(rq, GroupCode) : \E f \in CriticalFields : rq[r1][f] # rq[r2][f]

\* ---------------------------------------------------------------- properties

\* C1: at every point of a run, every TimeSlotBoard slot holds at most
\* parallel_event occupant labels other than 'none'.
C1_CapacityRespected ==
    \A s \in Slots : OccupiedCount(board, s) <= parallel_event

\* C1 witness: a commit has just filled every column of some slot, with two
\* parallel columns configured.
C1_Witness ==
    /\ last.kind = "commit"
    /\ parallel_event = 2
    /\ \E s \in Slots : OccupiedCount(board, s) = parallel_event

\* C2: no judge (supervisor or examiner) is on the panels of two committed
\* events whose slot ranges overlap in time.
C2_NoJudgeOverlap ==
    \A r1, r2 \in Rows :
        ( /\ Scheduled(r1) /\ Scheduled(r2)
          /\ AssignmentName(req[r1]) # AssignmentName(req[r2])
          /\ EventSlots(r1) \cap EventSlots(r2) # {} )
        => Panel(req[r1]) \cap Panel(req[r2]) = {}

\* C3: at the end of a run every request with a slot and both examiner fields
\* filled has two different examiners, neither of them one of its supervisors.
\* Requests whose pre-filled examiners already break this on input are left aside.
C3_ExaminersDistinct ==
    pc = "done" =>
        \A r \in Rows :
            ( /\ Scheduled(r)
              /\ req[r].examiner_1 # NA /\ req[r].examiner_2 # NA
              /\ Examiners(req0[r]) \cap Supervisors(req0[r]) = {}
              /\ req0[r].examiner_1 = NA \/ req0[r].examiner_1 # req0[r].examiner_2 )
            => /\ req[r].examiner_1 # req[r].examiner_2
               /\ Examiners(req[r]) \cap Supervisors(req[r]) = {}

\* C4: whenever a request or group is committed with start slot s and duration
\* D, every judge on its panel is available in each of the D slots from s.
C4_PanelAvailable ==
    last.kind = "commit" =>
        \A j \in Panel(req[last.row]) : \A k \in 0..(last.dur - 1) :
            last.start + k \in Slots /\ avail[j][last.start + k]

\* C5: after the round 1 attempt on a request or group, either it is fully
\* scheduled or examiner_1, examiner_2, date_time and status of each of its
\* rows are what they were before the attempt.
C5_RoundOneAtomic ==
    (last.round = 1 /\ last.kind \in {"commit", "rollback", "nopool"}) =>
        LET T == TargetRows(req, req[last.row])
        IN \/ \A r \in T : /\ req[r].examiner_1 # NA /\ req[r].examiner_2 # NA
                           /\ req[r].date_time # NA
           \/ \A r \in T : Outcome(req[r]) = Outcome(pre.req[r])

\* C6: after a round 1 attempt that does not end fully scheduled, every board
\* cell and every judge's workload and committed-slot list are what they were
\* immediately before the attempt.
C6_RollbackRestores ==
    (last.round = 1 /\ last.kind \in {"rollback", "nopool"}) =>
        board = pre.board /\ lect = pre.lect

\* C6 witness: a rollback has just run while the board and a judge carry an
\* earlier commitment.
C6_Witness ==
    /\ last.kind = "rollback"
    /\ \E s \in Slots : OccupiedCount(board, s) > 0
    /\ \E j \in Judges : lect[j].num_assignment > 0

\* C7: after each processing attempt on the capstone group (commit or
\* rollback), and at the end of the run, all members of the group have the
\* same date_time, examiner_1 and examiner_2.
C7_GroupMembersAgree ==
    LET G == GroupRows(req, GroupCode)
        agree == \A r1, r2 \in G :
                    /\ req[r1].date_time = req[r2].date_time
                    /\ req[r1].examiner_1 = req[r2].examiner_1
                    /\ req[r1].examiner_2 = req[r2].examiner_2
    IN /\ (last.kind \in {"commit", "rollback"} /\ last.label = GroupCode) => agree
       /\ pc = "done" => agree

\* C7 witness: the group of all rows has just been committed.
C7_Witness ==
    /\ last.kind = "commit"
    /\ last.label = GroupCode
    /\ GroupRows(req, GroupCode) = Rows
    /\ \A r \in Rows : Scheduled(r) /\ req[r].examiner_1 # NA

\* C8: over the whole run a capstone group is committed at most once: the
\* board holds the group's label in 0 or in exactly D cells.
C8_GroupCommittedOnce ==
    GroupRows(req, GroupCode) # {} =>
        LabelCells(board, GroupCode)
            \in {0, RequiredTimeslot(req, req[Min(GroupRows(req, GroupCode))])}

\* C9: when the run aborts with a data-integrity error, the board, the
\* lecturers and every request row are what they were at the start of the run.
C9_AbortLeavesNoTrace ==
    pc = "aborted" =>
        /\ req = req0
        /\ board = EmptyBoard(parallel_event)
        /\ lect = InitLecturers

\* C10: a capstone group whose members differ in field_1, field_2, spv_1,
\* spv_2, examiner_1 or examiner_2 aborts the run when its first row is
\* reached, wherever its rows stand, and none of its members is scheduled.
C10_InconsistentGroupAborts ==
    Inconsistent(req0) =>
        LET first == Min(GroupRows(req0, GroupCode))
        IN /\ \A r \in GroupRows(req0, GroupCode) : req[r].date_time = NA
           /\ pc \in {"start", "round1", "aborted"}
           /\ pc = "round1" => idx <= first
           /\ (pc = "round1" /\ idx = first) =>
                 ~RoundOneSkips(Current) /\ CheckCapstoneRaises(req, Current)
           /\ pc = "aborted" => last.kind = "abort" /\ last.row = first

\* C10 witness: the run has aborted at a group that starts after the first row
\* and whose members differ only in that one has examiner_2 empty.
C10_Witness ==
    /\ pc = "aborted"
    /\ Min(GroupRows(req0, GroupCode)) > 1
    /\ \E r1, r2 \in GroupRows(req0, GroupCode) :
          req0[r1].examiner_2 = NA /\ req0[r2].examiner_2 # NA
    /\ \A f \in CriticalFields \ {"examiner_2"} :
          \A r1, r2 \in GroupRows(req0, GroupCode) : req0[r1][f] = req0[r2][f]

\* C11: Scheduled is terminal. A row that had a date_time before a processing
\* attempt keeps its date_time, examiner_1, examiner_2 and status through it,
\* and is not among the rows the attempt is made for.
C11_ScheduledIsTerminal ==
    last.kind \in {"commit", "rollback", "nopool", "fail"} =>
        \A r \in Rows :
            pre.req[r].date_time # NA =>
                /\ Outcome(req[r]) = Outcome(pre.req[r])
                /\ r \notin TargetRows(pre.req, pre.req[last.row])

\* the whole panel of row r is available, and the board b has a free column,
\* in each of the dur slots from s
StartFits(b, r, s, dur) ==
    \A k \in 0..(dur - 1) :
        /\ s + k \in Slots
        /\ \A j \in Panel(req[r]) : avail[j][s + k]
        /\ IsTimeslotFree(b, s + k)

\* C12: the committed start slot is the earliest one that fits: no earlier
\* start slot has the whole panel available and the board free for D slots.
C12_EarliestStart ==
    last.kind = "commit" =>
        \A s \in Slots : s < last.start => ~StartFits(pre.board, last.row, s, last.dur)

\* the board cells (slot, column) whose content differs between two boards
ChangedCells(b0, b1) ==
    {sc \in Slots \X (1..MaxParallel) :
        sc[2] <= Len(b0[sc[1]]) /\ b0[sc[1]][sc[2]] # b1[sc[1]][sc[2]]}

\* the first free column of each of the dur slots from start
FirstFreeCells(b, start, dur) ==
    {sc \in Slots \X (1..MaxParallel) :
        /\ sc[1] >= start /\ sc[1] < start + dur
        /\ sc[2] <= Len(b[sc[1]])
        /\ b[sc[1]][sc[2]] = NoOccupant
        /\ \A c \in 1..(sc[2] - 1) : b[sc[1]][c] # NoOccupant}

\* C13: a commit with duration D changes exactly D board cells: in each of
\* the D slots from the start slot the first free column goes from 'none' to
\* the assignment label; no other cell changes.
C13_CommitWritesDCells ==
    last.kind = "commit" =>
        LET changed == ChangedCells(pre.board, board)
        IN /\ last.dur = RequiredTimeslot(req, req[last.row])
           /\ Cardinality(changed) = last.dur
           /\ changed = FirstFreeCells(pre.board, last.start, last.dur)
           /\ \A sc \in changed : board[sc[1]][sc[2]] = last.label

\* C13 witness: a group of duration 3 has just been committed next to an
\* earlier event, so that its label went into the second column of a slot.
C13_Witness ==
    /\ last.kind = "commit"
    /\ last.dur = 3
    /\ last.label = GroupCode
    /\ \E s \in Slots : pre.board[s][1] # NoOccupant /\ pre.board[s][1] # GroupCode
                        /\ Len(board[s]) = 2 /\ board[s][2] = GroupCode
                        /\ pre.board[s][2] = NoOccupant

\* C14: a commit raises the workload of each judge it newly assigns by exactly
\* 1 and appends the event's start slot to that judge's committed-slot list,
\* whatever the judge's earlier commitments; every other judge is unchanged.
C14_WorkloadPlusOne ==
    last.kind = "commit" =>
        \A j \in Judges :
            IF j \in SeqToSet(last.examiners)
            THEN /\ lect[j].num_assignment = pre.lect[j].num_assignment + 1
                 /\ lect[j].used_timeslot = Append(pre.lect[j].used_timeslot, last.start)
            ELSE lect[j] = pre.lect[j]

\* C15: round 2 over a request frame in which every row already has a
\* date_time changes no request row, no board cell and no judge's workload or
\* committed-slot list.
C15_RoundTwoIdempotent ==
    [][(pc = "round2" /\ \A r \in Rows : snap[r].date_time # NA)
          => (req' = req /\ board' = board /\ lect' = lect)]_vars

\* C15 witness: round 2 has run to its end over a frame that was fully
\* scheduled when it started.
C15_Witness ==
    /\ pc = "done"
    /\ round2
    /\ last.kind = "finish"
    /\ stats.before_round_2 = 0
    /\ \A r \in Rows : snap[r].date_time # NA

\* C16: every examiner newly assigned in round 1 has an expertise tag equal
\* to the request's field_1 or field_2.
C16_RoundOneExpertise ==
    (last.kind = "commit" /\ last.round = 1) =>
        \A j \in SeqToSet(last.examiners) :
            \E k \in 1..Len(expertise[j]) :
                expertise[j][k] \in {req[last.row].field_1, req[last.row].field_2} \ {NA}

\* C17 as stated: every row that receives its slot in round 1 gets the status
\* "Time and Expertise Match"; the two "Time Match Only" statuses are written
\* in round 2 only.
C17_RoundOneStatus ==
    last.kind = "commit" =>
        \A r \in TargetRows(req, req[last.row]) :
            /\ last.round = 1 => req[r].status = StatusExpertise
            /\ req[r].status \in {StatusTimeOnly, StatusPreAssigned} => last.round = 2

\* C17: a row that receives its slot in round 1 gets "Time and Expertise
\* Match" when round 1 assigned its examiners and "Time Match Only (Examiner
\* Already Assigned)" when both examiners were filled on input; "Time Match
\* Only" is written in round 2 only.
C17_StatusByRoundAndNeed ==
    last.kind = "commit" =>
        \A r \in TargetRows(req, req[last.row]) :
            /\ last.round = 1 =>
                  req[r].status = IF /\ pre.req[last.row].examiner_1 # NA
                                     /\ pre.req[last.row].examiner_2 # NA
                                  THEN StatusPreAssigned ELSE StatusExpertise
            /\ req[r].status = StatusTimeOnly => last.round = 2

\* C17 witness: round 1 has just committed a row whose two examiners were
\* filled on input, with the status of a pre-assigned panel.
C17_Witness ==
    /\ last.kind = "commit"
    /\ last.round = 1
    /\ last.needed = 0
    /\ req0[last.row].examiner_1 # NA /\ req0[last.row].examiner_2 # NA
    /\ req[last.row].status = StatusPreAssigned

ConfiguredDuration(type, size) ==
    IF type = SidangAkhir
    THEN CASE size = 2 -> config.capstone_duration_sidang_2
           [] size = 3 -> config.capstone_duration_sidang_3
           [] size = 4 -> config.capstone_duration_sidang_4
           [] OTHER -> config.default_timeslot_sidang
    ELSE CASE size = 2 -> config.capstone_duration_2
           [] size = 3 -> config.capstone_duration_3
           [] size = 4 -> config.capstone_duration_4
           [] OTHER -> config.default_timeslot

\* C19: the number of board cells a commit reserves is the configured duration
\* for the event type and the group size: the capstone duration of the size
\* for a group of 2, 3 or 4 (with the type of the group's first row), and the
\* default of the event type for an individual request or a group of another
\* size.
C19_DurationByTypeAndSize ==
    last.kind = "commit" =>
        LET row == req[last.row]
            G == GroupRows(req, row.capstone_code)
            size == IF IsCapstone(row) THEN Cardinality(G) ELSE 0
            type == IF IsCapstone(row) THEN req[Min(G)].type ELSE row.type
        IN /\ Cardinality(ChangedCells(pre.board, board)) = ConfiguredDuration(type, size)
           /\ LabelCells(board, last.label) - LabelCells(pre.board, last.label)
                 = ConfiguredDuration(type, size)

\* C19 witness: a Sidang Akhir request that is alone in its capstone group has
\* just been committed, with the default Sidang Akhir duration.
C19_Witness ==
    /\ last.kind = "commit"
    /\ last.label = GroupCode
    /\ Cardinality(GroupRows(req, GroupCode)) = 1
    /\ req[last.row].type = SidangAkhir
    /\ LabelCells(board, GroupCode) = config.default_timeslot_sidang

\* the candidates round 1 scores for the row it is about to process
RoundOneCandidates == CriteriaRows(CandidatePool(1, idx, Current), Current, 1)

\* x is no worse than y in criteria_a_matches, criteria_b_assignments and
\* criteria_c_availability, and strictly better (lower) in one of them
Dominates(x, y) ==
    /\ CriteriaAMatches(x) <= CriteriaAMatches(y)
    /\ x.criteria_b_assignments <= y.criteria_b_assignments
    /\ x.criteria_c_availability <= y.criteria_c_availability
    /\ \/ CriteriaAMatches(x) < CriteriaAMatches(y)
       \/ x.criteria_b_assignments < y.criteria_b_assignments
       \/ x.criteria_c_availability < y.criteria_c_availability

\* the number of slots in which a judge is available
AvailableSlots(j) == Cardinality({s \in Slots : avail[j][s]})

RoundTwoCandidates == CriteriaRows(CandidatePool(2, idx, Current), Current, 2)

\* one of the expertise tags of judge j is field_1 or field_2 of the request
TagEqualsField(j, request) ==
    \E k \in 1..Len(expertise[j]) :
        expertise[j][k] \in {request.field_1, request.field_2} \ {NA}

\* C21: in round 2 the total score of a ranked candidate is twice A_score +
\* 4 * B_score + C_score when one of its expertise tags equals field_1 or
\* field_2 of the request, and that sum otherwise; in round 1 it is the sum.
C21_RoundTwoDoubling ==
    /\ (InLoop("round2") /\ ~RoundTwoSkips(Current) /\ ~CheckCapstoneRaises(req, Current)) =>
          LET rows == RoundTwoCandidates
              sum(x) == CriteriaAScore(x, rows) + 4 * CriteriaBScore(x, rows)
                        + CriteriaCScore(x, rows)
          IN \A x \in rows :
                TotalScore(x, rows, 2) = IF TagEqualsField(x.kode_dosen, Current)
                                         THEN 2 * sum(x) ELSE sum(x)
    /\ (InLoop("round1") /\ ~RoundOneSkips(Current) /\ ~CheckCapstoneRaises(req, Current)) =>
          LET rows == RoundOneCandidates
          IN \A x \in rows :
                TotalScore(x, rows, 1) = CriteriaAScore(x, rows) + 4 * CriteriaBScore(x, rows)
                                         + CriteriaCScore(x, rows)

\* the candidates the round in progress ranks for the row it is about to process
RankedNow ==
    IF InLoop("round1") /\ ~RoundOneSkips(Current) /\ ~CheckCapstoneRaises(req, Current)
    THEN RoundOneCandidates
    ELSE IF InLoop("round2") /\ ~RoundTwoSkips(Current) /\ ~CheckCapstoneRaises(req, Current)
         THEN RoundTwoCandidates
         ELSE {}

\* judge j and every judge of `actors` are available in the dur slots from s
AllAvailableFrom(j, actors, s, dur) ==
    \A k \in 0..(dur - 1) :
        s + k \in Slots /\ \A a \in actors \cup {j} : avail[a][s + k]

\* C22: every ranked candidate has a start slot at which it and all actors
\* already assigned to the request (its supervisors and its pre-filled
\* examiners) are available for D consecutive slots.
C22_RankedHaveCommonStart ==
    \A x \in RankedNow :
        \E s \in Slots :
            AllAvailableFrom(x.kode_dosen, Panel(Current), s, RequiredTimeslot(req, Current))

\* the scored rows by descending total_score, rows of equal score in the order
\* of the pool (the order of the lecturers frame)
RECURSIVE StableRanking(_)
StableRanking(rows) ==
    IF rows = {} THEN <<>>
    ELSE LET best == CHOOSE r \in rows : \A c \in rows \ {r} :
                         \/ r.total_score > c.total_score
                         \/ r.total_score = c.total_score /\ r.kode_dosen < c.kode_dosen
         IN <<best>> \o StableRanking(rows \ {best})

\* the scored rows of the attempt a step makes, read in the state it starts from
ScoredForStep == ScoredRows(CandidatePool(last'.round, idx, Current), Current, last'.round)

\* C23: the examiners a commit selects are the first k entries (k the number
\* of empty examiner fields) of the scored candidates sorted by descending
\* total score with equal scores in pool order, and no ranked candidate left
\* out has a strictly higher total score than a selected one.
C23_SelectedAreStableTopK ==
    [][(last'.kind = "commit" /\ last'.needed > 0) =>
          LET stable == StableRanking(ScoredForStep)
              k == IF last'.needed < Len(stable) THEN last'.needed ELSE Len(stable)
              selected == SeqToSet(last'.examiners)
          IN /\ last'.examiners = [i \in 1..k |-> stable[i].kode_dosen]
             /\ \A x, y \in ScoredForStep :
                   (x.kode_dosen \in selected /\ y.kode_dosen \notin selected)
                       => y.total_score <= x.total_score]_vars

\* the examiner columns of a request row that are empty
EmptyExaminerFields(row) == {f \in SeqToSet(ExaminerRoles) : row[f] = NA}

\* C24: in round 2, for a row without a date_time, whenever at least one
\* candidate is ranked the step commits a slot and fills min(empty examiner
\* fields, ranked candidates) examiner fields; nothing in round 2 takes a
\* date_time or a filled examiner field away again.
C24_RoundTwoKeepsPartial ==
    [][/\ ( /\ InLoop("round2")
            /\ req[idx].date_time = NA
            /\ ~CheckCapstoneRaises(req, Current)
            /\ RoundTwoCandidates # {} ) =>
              LET empty == Cardinality(EmptyExaminerFields(req[idx]))
                  ranked == Cardinality(RoundTwoCandidates)
                  filled == {f \in EmptyExaminerFields(req[idx]) : req'[idx][f] # NA}
              IN /\ last'.kind = "commit"
                 /\ req'[idx].date_time # NA
                 /\ Cardinality(filled) = IF empty < ranked THEN empty ELSE ranked
       /\ pc = "round2" =>
              \A r \in Rows :
                  /\ req[r].date_time # NA => req'[r].date_time # NA
                  /\ EmptyExaminerFields(req'[r]) \subseteq EmptyExaminerFields(req[r])
      ]_vars

\* C24 witness: the run has returned with a row that round 2 scheduled with one
\* examiner only.
C24_Witness ==
    /\ pc = "done"
    /\ \E r \in Rows :
          /\ req[r].date_time # NA
          /\ req[r].status = StatusTimeOnly
          /\ req[r].examiner_1 # NA
          /\ req[r].examiner_2 = NA

\* the judges outside the supervisors of `request` that carry one of its
\* fields as a tag and have a start slot, free on board b, from which they and
\* the supervisors are available for dur slots
FittingCandidates(b, request, dur) ==
    {j \in Judges \ Supervisors(request) :
        /\ TagEqualsField(j, request)
        /\ \E s \in Slots :
              /\ AllAvailableFrom(j, Supervisors(request), s, dur)
              /\ \A k \in 0..(dur - 1) : IsTimeslotFree(b, s + k)}

\* C25: when round 1 processes a request whose two examiner fields are empty
\* and for which at least two field-matching non-supervisor judges each have a
\* board-free start slot that suits them and the supervisors for D slots, it
\* commits the request: two examiners, D consecutive board cells from the
\* start slot, status "Time and Expertise Match".
C25_RoundOneCommits ==
    [][( /\ InLoop("round1")
         /\ ~RoundOneSkips(Current)
         /\ ~CheckCapstoneRaises(req, Current)
         /\ EmptyExaminerFields(req[idx]) = SeqToSet(ExaminerRoles)
         /\ Cardinality(FittingCandidates(board, req[idx], RequiredTimeslot(req, req[idx]))) >= 2 ) =>
           /\ last'.kind = "commit"
           /\ \A r \in TargetRows(req, req[idx]) :
                 /\ req'[r].examiner_1 # NA /\ req'[r].examiner_2 # NA
                 /\ req'[r].examiner_1 # req'[r].examiner_2
                 /\ req'[r].date_time = last'.start
                 /\ req'[r].status = StatusExpertise
           /\ ChangedCells(board, board')
                 = FirstFreeCells(board, last'.start, RequiredTimeslot(req, req[idx]))
           /\ Cardinality(ChangedCells(board, board')) = RequiredTimeslot(req, req[idx])
           /\ \A sc \in ChangedCells(board, board') : board'[sc[1]][sc[2]] = last'.label
      ]_vars

\* C25 witness: round 1 has just committed a capstone group with two examiners
\* it chose itself.
C25_Witness ==
    /\ last.kind = "commit"
    /\ last.round = 1
    /\ last.needed = 2
    /\ last.label = GroupCode
    /\ Len(last.examiners) = 2
    /\ req[last.row].status = StatusExpertise
    /\ LabelCells(board, GroupCode) = last.dur

\* no judge outside the supervisors of `request` carries one of its fields
NoFieldMatch(request) ==
    \A j \in Judges \ Supervisors(request) : ~TagEqualsField(j, request)

\* two judges outside the supervisors of `request` and a start slot, free on
\* board b for dur slots, from which both and the supervisors are available
PairFits(b, request, dur) ==
    \E j1, j2 \in Judges \ Supervisors(request) : \E s \in Slots :
        /\ j1 # j2
        /\ AllAvailableFrom(j1, Supervisors(request) \cup {j2}, s, dur)
        /\ \A k \in 0..(dur - 1) : IsTimeslotFree(b, s + k)

\* round 1 leaves a request without a field-matching judge as it is
RoundOneLeavesUnmatched ==
    ( /\ InLoop("round1")
      /\ ~RoundOneSkips(Current)
      /\ ~CheckCapstoneRaises(req, Current)
      /\ NoFieldMatch(req[idx]) ) =>
        req' = req /\ board' = board /\ lect' = lect

\* round 2 schedules such a request when a pair of judges and a slot fit
RoundTwoSchedulesUnmatched(statuses) ==
    ( /\ InLoop("round2")
      /\ req[idx].date_time = NA
      /\ ~CheckCapstoneRaises(req, Current)
      /\ NoFieldMatch(req[idx])
      /\ PairFits(board, req[idx], RequiredTimeslot(req, req[idx])) ) =>
        /\ last'.kind = "commit"
        /\ req'[idx].date_time # NA
        /\ req'[idx].status \in statuses

\* C26: a request for which no field-matching non-supervisor judge exists is
\* left unchanged by round 1 and, when a pair of judges and a start slot
\* satisfy availability and board capacity, is scheduled in round 2 with
\* status "Time Match Only".
C26_UnmatchedGoesToRoundTwo ==
    [][RoundOneLeavesUnmatched /\ RoundTwoSchedulesUnmatched({StatusTimeOnly})]_vars

\* C27: when the run has returned, unscheduled_before_round_1,
\* unscheduled_before_round_2 and unscheduled_after_round_2 are the numbers of
\* rows without a date_time at the start of round 1, at the end of round 1 and
\* at the end of the run, with round 2 enabled or not, and do not increase in
\* that order.
C27_CountersFollowRun ==
    pc = "done" =>
        /\ stats.before_round_1 = CountUnscheduled(req0)
        /\ stats.before_round_2 = CountUnscheduled(IF round2 THEN snap ELSE req)
        /\ stats.after_round_2 = CountUnscheduled(req)
        /\ stats.before_round_1 >= stats.before_round_2
        /\ stats.before_round_2 >= stats.after_round_2

C29_AvailabilityImmutable ==
    [][avail' = avail]_vars

\* C29 witness: the run has returned and a judge is still marked available in
\* the start slot of an event it was committed to as examiner.
C29_Witness ==
    /\ pc = "done"
    /\ \E j \in Judges : \E s \in SeqToSet(lect[j].used_timeslot) :
          /\ avail[j][s]
          /\ \E r \in Rows : req[r].date_time = s /\ j \in Examiners(req[r])

\* ===================================================== csv_fixer.py
\* A cell of the Google Form file is a pair <<text, padded>>: its text without
\* surrounding blanks, and whether blanks surround it.  <<"", TRUE>> is a cell
\* of blanks only.
MaxCsvRows == 3

\* str.strip()
Strip(cell) == cell[1]

\* str.lower(): the letters of the header word fold, blanks stay
Lower(cell) == <<IF cell[1] = "NIM" THEN "nim" ELSE cell[1], cell[2]>>

\* the strings 'nim' and '' of the header test
HeaderCells == {<<"nim", FALSE>>, <<"", FALSE>>}

NimCells == {<<"", FALSE>>, <<"", TRUE>>, <<"NIM", FALSE>>, <<"11", FALSE>>,
             <<"11", TRUE>>, <<"12", FALSE>>}

NamaCells == {<<"", TRUE>>, <<"Ani", FALSE>>}

\* one column stands for the columns that are copied stripped (judul, type,
\* field_1, field_2, spv_1, spv_2, examiner_1, examiner_2, capstone_code)
FieldCells == {<<"AI", FALSE>>, <<"IoT", TRUE>>}

FormRows == [Nim : NimCells, Nama : NamaCells, Field : FieldCells]

\* the dict `normalized` built for one row
Normalized(row) ==
    [nama |-> Strip(row.Nama), nim |-> Strip(row.Nim), field_1 |-> Strip(row.Field),
     date_time |-> "", status |-> ""]

\* `continue` of the loop: a repeated header or a row without NIM
SkipRow(row) == Lower(row.Nim) \in HeaderCells \/ Strip(row.Nim) = ""

\* if normalized['nim'] and normalized['nama']
HasRequiredFields(normalized) == normalized.nim # "" /\ normalized.nama # ""

\* nim in nim_to_row
InDict(d, nim) == \E i \in DOMAIN d : d[i].nim = nim

\* a dict that never overwrites: the first row of a NIM stays
DictSetKeepFirst(d, normalized) ==
    IF InDict(d, normalized.nim) THEN d ELSE Append(d, normalized)

\* nim_to_row[nim] = normalized: a new key goes to the end, a key already
\* present keeps its place and takes the new row
DictSet(d, normalized) ==
    IF InDict(d, normalized.nim)
    THEN [i \in DOMAIN d |-> IF d[i].nim = normalized.nim THEN normalized ELSE d[i]]
    ELSE Append(d, normalized)

\* a data file waits to be normalized
CsvInit ==
    /\ \E n \in 0..MaxCsvRows : csv_rows \in [1..n -> FormRows]
    /\ has_timestamp \in (IF Len(csv_rows) <= 1 THEN BOOLEAN ELSE {TRUE})
    /\ nim_to_row = <<>>
    /\ duplicate_count = 0
    /\ pos = 0
    /\ npc = "read"
    /\ normalized_rows = <<>>

\* the scheduler is not running while the file is normalized
SchedulerIdle ==
    /\ req = [r \in Rows |-> RequestRow(r, NA, NA)]
    /\ round2 = TRUE
    /\ expertise = [j \in Judges |-> IF j = 1 THEN <<1>> ELSE <<2>>]
    /\ parallel_event = 1
    /\ board = EmptyBoard(1)
    /\ avail = [j \in Judges |-> ExpandAvailability(CHOOSE h \in AvailChoices : TRUE)]
    /\ lect = InitLecturers
    /\ pc = "start"
    /\ idx = 0
    /\ snap = req
    /\ processed = {}
    /\ stats = [before_round_1 |-> 0, before_round_2 |-> 0, after_round_2 |-> 0]
    /\ req0 = req
    /\ pre = [req |-> req, board |-> board, lect |-> lect]
    /\ last = NoStep

\* if not rows or 'Timestamp' not in rows[0]: return csv_path
NormalizeOldFormat ==
    /\ npc = "read"
    /\ csv_rows = <<>> \/ ~has_timestamp
    /\ npc' = "returned"
    /\ UNCHANGED <<csv_rows, has_timestamp, nim_to_row, duplicate_count, pos,
                   normalized_rows, schedvars, webvars>>

\* the new Google Form format is detected
NormalizeBegin ==
    /\ npc = "read"
    /\ csv_rows # <<>> /\ has_timestamp
    /\ npc' = "loop"
    /\ pos' = 1
    /\ UNCHANGED <<csv_rows, has_timestamp, nim_to_row, duplicate_count,
                   normalized_rows, schedvars, webvars>>

\* one pass of `for row in rows`
NormalizeRow ==
    /\ npc = "loop"
    /\ pos <= Len(csv_rows)
    /\ LET row == csv_rows[pos]
           normalized == Normalized(row)
           kept == ~SkipRow(row) /\ HasRequiredFields(normalized)
       IN /\ duplicate_count' = IF kept /\ InDict(nim_to_row, normalized.nim)
                                THEN duplicate_count + 1 ELSE duplicate_count
          /\ nim_to_row' = IF kept THEN DictSet(nim_to_row, normalized) ELSE nim_to_row
    /\ pos' = pos + 1
    /\ UNCHANGED <<csv_rows, has_timestamp, npc, normalized_rows, schedvars, webvars>>

\* normalized_rows = list(nim_to_row.values()), written to *_normalized.csv
NormalizeWrite ==
    /\ npc = "loop"
    /\ pos > Len(csv_rows)
    /\ normalized_rows' = nim_to_row
    /\ npc' = "written"
    /\ UNCHANGED <<csv_rows, has_timestamp, nim_to_row, duplicate_count, pos, schedvars, webvars>>

NormalizeNext ==
    \/ NormalizeOldFormat
    \/ NormalizeBegin
    \/ NormalizeRow
    \/ NormalizeWrite

NormalizeInit == CsvInit /\ SchedulerIdle /\ WebIdle

NormalizeSpec == NormalizeInit /\ [][NormalizeNext]_vars

\* ------------------------------------------------------------------ C30
\* positions of the input rows whose NIM, stripped, is nim
Occurrences(nim) == {i \in DOMAIN csv_rows : Strip(csv_rows[i].Nim) = nim}

\* positions of the occurrences that are data rows with a name
NamedOccurrences(nim) ==
    {i \in Occurrences(nim) :
        ~SkipRow(csv_rows[i]) /\ HasRequiredFields(Normalized(csv_rows[i]))}

Max(S) == CHOOSE x \in S : \A y \in S : x >= y

InputNims == {Strip(csv_rows[i].Nim) : i \in DOMAIN csv_rows} \ {""}

DistinctNims ==
    \A i, k \in DOMAIN normalized_rows :
        i # k => normalized_rows[i].nim # normalized_rows[k].nim

\* C30 as stated: the rows written for a new-format request file have pairwise
\* distinct NIMs, and the row retained for a NIM that occurs several times in
\* the input carries the (stripped) field values of the NIM's last occurrence.
C30_LastOccurrenceRetained ==
    npc = "written" =>
        /\ DistinctNims
        /\ \A nim \in InputNims :
              Cardinality(Occurrences(nim)) >= 2 =>
                  \A i \in DOMAIN normalized_rows :
                      normalized_rows[i].nim = nim =>
                          normalized_rows[i] = Normalized(csv_rows[Max(Occurrences(nim))])

\* C30 amended: the rows written have pairwise distinct NIMs, a NIM is written
\* exactly when one of its occurrences is a data row with a name, and the row
\* retained carries the field values of the last such occurrence.
C30_LastNamedOccurrenceRetained ==
    npc = "written" =>
        /\ DistinctNims
        /\ \A i \in DOMAIN normalized_rows :
              LET nim == normalized_rows[i].nim
              IN /\ NamedOccurrences(nim) # {}
                 /\ normalized_rows[i] = Normalized(csv_rows[Max(NamedOccurrences(nim))])
        /\ \A nim \in InputNims :
              NamedOccurrences(nim) # {} =>
                  \E i \in DOMAIN normalized_rows : normalized_rows[i].nim = nim

\* a NIM is submitted twice with a name and different field values, once with
\* blanks around it, and one row is written for it
C30_Witness ==
    /\ npc = "written"
    /\ \E nim \in InputNims :
          /\ Cardinality(NamedOccurrences(nim)) >= 2
          /\ \E i, k \in NamedOccurrences(nim) :
                /\ csv_rows[i].Nim # csv_rows[k].Nim
                /\ Strip(csv_rows[i].Field) # Strip(csv_rows[k].Field)
          /\ \E i \in DOMAIN normalized_rows : normalized_rows[i].nim = nim
    /\ duplicate_count >= 1

\* ------------------------------------------------------------------ C31
ExactlyOnePrefilled(row) == Cardinality(EmptyExaminerFields(row)) = 1

\* C31: in Round 1 a request with exactly one examiner field filled and the
\* other empty is never committed: no step of Round 1 gives it a slot or a new
\* examiner, so it is still unscheduled when Round 2 starts.
C31_OnePrefilledDeferred ==
    [][pc = "round1" =>
          \A r \in Rows :
              (ExactlyOnePrefilled(req[r]) /\ req[r].date_time = NA) =>
                  /\ req'[r].date_time = NA
                  /\ \A f \in SeqToSet(ExaminerRoles) : req'[r][f] \in {NA, req[r][f]}]_vars

\* Round 1 ranked candidates for a request with one examiner filled, turned it
\* away at the gate and reset it: the request has no slot
C31_Witness ==
    /\ pc = "round1"
    /\ last.kind = "rollback"
    /\ last.round = 1
    /\ last.needed = 1
    /\ ExactlyOnePrefilled(pre.req[last.row])
    /\ req[last.row].date_time = NA

\* ------------------------------------------------------------------ C32
\* the board cells that carry a label
CellsOf(b, name) ==
    {sc \in Slots \X (1..MaxParallel) :
        sc[2] <= Len(b[sc[1]]) /\ b[sc[1]][sc[2]] = name}

\* the slots in which a label stands
SlotsOf(b, name) == {sc[1] : sc \in CellsOf(b, name)}

\* C32: at the end of a run the board and the request rows agree: a board cell
\* carries label X if and only if the request with nim X (or the group with
\* code X) has a date_time, and the cells carrying X are exactly D cells, one
\* in each of the D consecutive slots that start at that date_time.
C32_BoardAgreesWithRequests ==
    pc = "done" =>
        \A r \in Rows :
            LET name == AssignmentName(req[r])
                dur == RequiredTimeslot(req, req[r])
            IN IF req[r].date_time = NA
               THEN CellsOf(board, name) = {}
               ELSE /\ SlotsOf(board, name) =
                          {s \in Slots : s >= req[r].date_time /\ s < req[r].date_time + dur}
                    /\ Cardinality(CellsOf(board, name)) = dur

\* ------------------------------------------------------------------ C33
\* the events (labels) of the final request rows that have a slot
FinalEvents == {AssignmentName(req[r]) : r \in {x \in Rows : req[x].date_time # NA}}

RowsOfEvent(name) == {r \in Rows : AssignmentName(req[r]) = name}

\* the events in which judge j stands in an examiner column that was empty or
\* held another judge on input: the scheduler wrote j there
WrittenFor(j) ==
    {name \in FinalEvents :
        \E r \in RowsOfEvent(name) : \E f \in SeqToSet(ExaminerRoles) :
            req[r][f] = j /\ req0[r][f] # j}

\* the events in which judge j stands in an examiner column at all; in a column
\* that held j on input the scheduler may have written j again after a reset
PossiblyWrittenFor(j) ==
    {name \in FinalEvents :
        \E r \in RowsOfEvent(name) : \E f \in SeqToSet(ExaminerRoles) : req[r][f] = j}

StartOf(name) == req[CHOOSE r \in RowsOfEvent(name) : TRUE].date_time

\* C33: at the end of a run the lecturers frame and the request rows agree:
\* for every judge, used_timeslot holds exactly the start slots of the events
\* in whose final rows the scheduler wrote the judge as examiner_1 or
\* examiner_2, and num_assignment equals the number of those events.
C33_JudgesAgreeWithRequests ==
    pc = "done" =>
        \A j \in Judges :
            \E E \in SUBSET PossiblyWrittenFor(j) :
                /\ WrittenFor(j) \subseteq E
                /\ SeqToSet(lect[j].used_timeslot) = {StartOf(name) : name \in E}
                /\ lect[j].num_assignment = Cardinality(E)

\* ------------------------------------------------------------------ C34
\* the rows of the request or group the loop is at
RowsInProcess == {r \in Rows : AssignmentName(req[r]) = AssignmentName(Current)}

\* C34: processing one individual request or one capstone group (commit or
\* rollback) never changes examiner_1, examiner_2, date_time or status of a
\* row outside that request or group, and never adds or removes request rows.
C34_OtherRowsUntouched ==
    [][/\ DOMAIN req' = DOMAIN req
       /\ idx \in Rows =>
             \A r \in Rows \ RowsInProcess : Outcome(req'[r]) = Outcome(req[r])
       /\ idx \notin Rows => req' = req]_vars

\* a group has just been committed, or a request reset, next to a row that was
\* scheduled before and still reads the same
C34_Witness ==
    /\ last.kind \in {"commit", "rollback"}
    /\ req # pre.req
    /\ \E r \in Rows :
          /\ AssignmentName(req[r]) # last.label
          /\ pre.req[r].date_time # NA
          /\ Outcome(req[r]) = Outcome(pre.req[r])

\* ------------------------------------------------------------------ C35
\* the loop stands at a row that is handed to _rank_lecturer and _assign_actor
AttemptPending(round_num) ==
    /\ InLoop(IF round_num = 1 THEN "round1" ELSE "round2")
    /\ IF round_num = 1 THEN ~RoundOneSkips(Current) ELSE ~RoundTwoSkips(Current)
    /\ ~CheckCapstoneRaises(req, Current)
    /\ CandidatePool(round_num, idx, Current) # {}

\* C35: the run is deterministic: on identical inputs two runs end with
\* identical request rows, board cells and judge rows.  Every attempt then
\* has one outcome: once the candidates are ranked, the start slot
\* _assign_actor writes is determined, whatever order the collection of
\* matched start slots is iterated in.
C35_StartDetermined ==
    \A round_num \in {1, 2} :
        AttemptPending(round_num) =>
            \A ranked \in RankLecturer(CandidatePool(round_num, idx, Current),
                                       Current, round_num) :
                Cardinality(DatetimeChoices(ranked, round_num, Current)) = 1

\* ===================================================== cleanup.py
\* Cleaner._get_timeslot_duration: the number of slots End Time is computed
\* from; the numbers are written in the code, not read from the config
GetTimeslotDuration(rq, row) ==
    IF row.capstone_code # NA
    THEN LET num_students == Cardinality(GroupRows(rq, row.capstone_code))
         IN CASE num_students = 2 -> 3
              [] num_students = 3 -> 4
              [] num_students = 4 -> 5
              [] OTHER -> 2
    ELSE 2

\* ------------------------------------------------------------------ C36
\* C36: for every scheduled request the duration the Cleaner uses to compute
\* End Time equals the duration D the scheduler reserved on the board, for
\* Proposal and Sidang Akhir, every group size and the configured durations.
C36_CleanerDurationMatches ==
    last.kind = "commit" =>
        \A r \in Rows :
            AssignmentName(req[r]) = last.label =>
                GetTimeslotDuration(req, req[r]) = last.dur

\* ===================================================== app.py
\* run_scheduler, `if job_status['running']`: the test and the answer of a
\* request that finds a job running
RunCheck(h) ==
    /\ handler[h] = "idle"
    /\ served < MaxRequests
    /\ served' = served + 1
    /\ handler' = [handler EXCEPT ![h] = IF running THEN "rejected" ELSE "passed"]
    /\ UNCHANGED <<running, threads, schedvars, csvvars>>

\* run_scheduler, "Reset job status": job_status = {'running': True, ...}
RunReset(h) ==
    /\ handler[h] = "passed"
    /\ running' = TRUE
    /\ handler' = [handler EXCEPT ![h] = "reset"]
    /\ UNCHANGED <<threads, served, schedvars, csvvars>>

\* run_scheduler: threading.Thread(target=execute_scheduler).start()
RunStart(h) ==
    /\ handler[h] = "reset"
    /\ threads' = threads + 1
    /\ handler' = [handler EXCEPT ![h] = "accepted"]
    /\ UNCHANGED <<running, served, schedvars, csvvars>>

\* run_scheduler: the answer is sent and the server thread takes a new request
RunRespond(h) ==
    /\ handler[h] \in {"rejected", "accepted"}
    /\ handler' = [handler EXCEPT ![h] = "idle"]
    /\ UNCHANGED <<running, threads, served, schedvars, csvvars>>

\* execute_scheduler: the subprocess has ended or an exception was caught, and
\* `finally` sets job_status['running'] = False
ExecuteFinish ==
    /\ threads > 0
    /\ threads' = threads - 1
    /\ running' = FALSE
    /\ UNCHANGED <<handler, served, schedvars, csvvars>>

WebNext ==
    \/ \E h \in Handlers : RunCheck(h)
    \/ \E h \in Handlers : RunReset(h)
    \/ \E h \in Handlers : RunStart(h)
    \/ \E h \in Handlers : RunRespond(h)
    \/ ExecuteFinish

WebInit == WebIdle /\ SchedulerIdle /\ CsvIdle

WebSpec == WebInit /\ [][WebNext]_vars

\* ------------------------------------------------------------------ C37
\* C37: at most one scheduler job started by POST /run is running at any
\* time, also when two /run requests are handled concurrently or a request
\* arrives while a job thread is finishing; a job that runs has
\* job_status.running set, so that every further /run request is rejected.
C37_SingleJob ==
    /\ threads <= 1
    /\ threads = 1 => running

====
